---------------------------- MODULE Spec2Model ----------------------------
(***************************************************************************)
(* Model of the lending-liquidation-sentinel: the risk formulas of         *)
(* LendingMonitor (src/src/lending_monitor.py), the protocol adapters      *)
(* (src/src/protocol_interfaces.py) and the classification done by the     *)
(* /lending/monitor endpoint (src/src/main.py), and the price feed         *)
(* (src/src/price_feed.py).                                                *)
(*                                                                         *)
(* Numbers.  A Python float is modelled as a decimal-scaled rational       *)
(*     [n, d, e]  standing for  (n / d) * 10^e,   d > 0,                   *)
(* and +infinity as the record with d = 0.  Arithmetic is exact, so the    *)
(* model states what the formulas compute up to float rounding.  The       *)
(* decimal exponent e is what the adapters' divisions by 1e8, 1e4, 1e18,   *)
(* 1e6 and 1e14 act on; an on-chain integer is such a number with d = 1.   *)
(***************************************************************************)
EXTENDS Integers, Sequences, FiniteSets, TLC

VARIABLES
    calc,           \* a call of one Risk Calculator method: arguments and result
    req,            \* the monitoring request: wallet, protocol_ids, chain_id
    pc,             \* where the request stands in the pipeline
    adapter,        \* the protocol adapter under construction or constructed
    net,            \* the external operations issued so far, in order
    raw,            \* the values the chain returned to the adapter's reads
    account_data,   \* what get_user_account_data returned
    position,       \* what LendingMonitor.monitor_position returned
    response,       \* what the /lending/monitor endpoint answered
    feed,           \* a call of the price feed: its arguments, locals and result
    lending_monitor, \* the LendingMonitor that all requests share
    requests        \* the monitor_position calls under way on it, each with its state

vars == <<calc, req, pc, adapter, net, raw, account_data, position, response, feed, lending_monitor, requests>>

pipeline == <<req, pc, adapter, net, raw, account_data, position, response>>

concurrent == <<lending_monitor, requests>>

\* Python's None
None == [none |-> TRUE]

----------------------------------------------------------------------------
(* Exact arithmetic standing for Python's float arithmetic *)

Abs(x) == IF x < 0 THEN -x ELSE x

RECURSIVE GCD(_, _)
GCD(a, b) == IF b = 0 THEN a ELSE GCD(b, a % b)

RECURSIVE Pow10(_)
Pow10(k) == IF k = 0 THEN 1 ELSE 10 * Pow10(k - 1)

Inf == [n |-> 1, d |-> 0, e |-> 0]

IsInf(a) == a.d = 0

\* The one way of writing (n / d) * 10^e with n and d coprime, d coprime to
\* ten and n no multiple of ten: equal values are equal records.
RECURSIVE Canon(_, _, _)
Canon(n, d, e) ==
    IF n = 0 THEN [n |-> 0, d |-> 1, e |-> 0]
    ELSE IF n % 10 = 0 THEN Canon(n \div 10, d, e + 1)
    ELSE IF d % 10 = 0 THEN Canon(n, d \div 10, e - 1)
    ELSE IF d % 2 = 0 THEN Canon(n * 5, d \div 2, e - 1)
    ELSE IF d % 5 = 0 THEN Canon(n * 2, d \div 5, e - 1)
    ELSE [n |-> n, d |-> d, e |-> e]

Norm(n, d, e) ==
    LET g == GCD(Abs(n), d)
    IN  IF n = 0 THEN Canon(0, 1, 0) ELSE Canon(n \div g, d \div g, e)

Num(n, d) == Norm(n, d, 0)

Zero == Num(0, 1)

One == Num(1, 1)

IsZero(a) == ~IsInf(a) /\ a.n = 0

IsNeg(a) == ~IsInf(a) /\ a.n < 0

Neg(a) == [a EXCEPT !.n = -a.n]

\* x * 10^k < y for naturals, without forming x * 10^k when it is the larger
RECURSIVE LtPow(_, _, _)
LtPow(x, y, k) ==
    IF k = 0 THEN x < y
    ELSE IF x >= y THEN FALSE
    ELSE LtPow(x * 10, y, k - 1)

\* x < y * 10^k for naturals
RECURSIVE LtPowR(_, _, _)
LtPowR(x, y, k) ==
    IF k = 0 THEN x < y
    ELSE IF y = 0 THEN FALSE
    ELSE IF x < y THEN TRUE
    ELSE LtPowR(x, y * 10, k - 1)

\* a < b for finite a, b >= 0
LtNonNeg(a, b) ==
    LET x == a.n * b.d
        y == b.n * a.d
    IN  IF a.e >= b.e THEN LtPow(x, y, a.e - b.e) ELSE LtPowR(x, y, b.e - a.e)

Lt(a, b) ==
    IF IsInf(a) THEN FALSE
    ELSE IF IsInf(b) THEN TRUE
    ELSE IF a.n < 0 /\ b.n >= 0 THEN TRUE
    ELSE IF a.n >= 0 /\ b.n < 0 THEN FALSE
    ELSE IF a.n < 0 THEN LtNonNeg(Neg(b), Neg(a))
    ELSE LtNonNeg(a, b)

Eq(a, b) == ~Lt(a, b) /\ ~Lt(b, a)

Le(a, b) == ~Lt(b, a)

Gt(a, b) == Lt(b, a)

\* a * b.  inf * x is inf for x > 0, the only case the formulas meet.
Mul(a, b) ==
    IF IsInf(a) \/ IsInf(b) THEN Inf
    ELSE LET g1 == GCD(Abs(a.n), b.d)
             g2 == GCD(Abs(b.n), a.d)
         IN  IF a.n = 0 \/ b.n = 0 THEN Zero
             ELSE Norm((a.n \div g1) * (b.n \div g2),
                       (a.d \div g2) * (b.d \div g1), a.e + b.e)

\* 1 / b for finite b # 0
Recip(b) ==
    IF b.n < 0 THEN Norm(-b.d, -b.n, -b.e) ELSE Norm(b.d, b.n, -b.e)

\* a - b.  inf - x is inf; a value whose exponent exceeds the other's by
\* more than Absorb decimal digits absorbs it, as a double does.
Absorb == 30

Sub(a, b) ==
    IF IsInf(a) THEN Inf
    ELSE IF IsZero(b) THEN a
    ELSE IF a.e = b.e THEN Norm(a.n * b.d - b.n * a.d, a.d * b.d, a.e)
    ELSE IF a.e - b.e > Absorb THEN a
    ELSE IF a.e > b.e
         THEN Norm(a.n * Pow10(a.e - b.e) * b.d - b.n * a.d, a.d * b.d, b.e)
         ELSE Norm(a.n * b.d - b.n * Pow10(b.e - a.e) * a.d, a.d * b.d, a.e)

\* An outcome of a call: a returned value, or a raised exception.
Ret(v) == [ok |-> TRUE, val |-> v]

Raise(x) == [ok |-> FALSE, err |-> x]

\* Python's a / b on floats: ZeroDivisionError when b is zero.
TrueDiv(a, b) ==
    IF IsZero(b) THEN Raise("ZeroDivisionError")
    ELSE IF IsInf(b) THEN Ret(Zero)
    ELSE Ret(Mul(a, Recip(b)))

\* Python's round(x, k): the nearest multiple of 10^-k, ties to even
Round(x, k) ==
    IF IsInf(x) THEN x
    ELSE IF x.d = 1 /\ x.e >= -k THEN x
    ELSE LET s == x.e + k
             num == IF s >= 0 THEN x.n * Pow10(s) ELSE x.n
             den == IF s >= 0 THEN x.d ELSE x.d * Pow10(-s)
             q == num \div den
             r == num - q * den
             up == 2 * r > den \/ (2 * r = den /\ q % 2 = 1)
         IN  Norm(IF up THEN q + 1 ELSE q, 1, -k)

----------------------------------------------------------------------------
(* Risk Calculator: LendingMonitor's pure methods *)

\* calculate_health_factor without its zero-debt case reporting infinity
calculate_health_factor_zero_debt(total_collateral_usd, total_debt_usd, liquidation_threshold) ==
    IF IsZero(total_debt_usd) THEN Ret(Zero)
    ELSE TrueDiv(Mul(total_collateral_usd, liquidation_threshold), total_debt_usd)

calculate_health_factor(total_collateral_usd, total_debt_usd, liquidation_threshold) ==
    IF IsZero(total_debt_usd) THEN Ret(Inf)
    ELSE TrueDiv(Mul(total_collateral_usd, liquidation_threshold), total_debt_usd)

DefaultLiquidationBonus == Num(105, 100)

\* calculate_liquidation_price with the bonus multiplying the threshold
calculate_liquidation_price_bonus_multiplies(collateral_amount, debt_amount, debt_price, liquidation_threshold, liquidation_bonus) ==
    IF IsZero(collateral_amount) THEN Ret(Zero)
    ELSE TrueDiv(Mul(debt_amount, debt_price),
                 Mul(collateral_amount, Mul(liquidation_threshold, liquidation_bonus)))

\* calculate_liquidation_price without the zero-collateral early return
calculate_liquidation_price_no_guard(collateral_amount, debt_amount, debt_price, liquidation_threshold, liquidation_bonus) ==
    LET effective_threshold == TrueDiv(liquidation_threshold, liquidation_bonus)
    IN  IF ~effective_threshold.ok THEN effective_threshold
        ELSE TrueDiv(Mul(debt_amount, debt_price),
                     Mul(collateral_amount, effective_threshold.val))

calculate_liquidation_price(collateral_amount, debt_amount, debt_price, liquidation_threshold, liquidation_bonus) ==
    IF IsZero(collateral_amount) THEN Ret(Zero)
    ELSE LET effective_threshold == TrueDiv(liquidation_threshold, liquidation_bonus)
         IN  IF ~effective_threshold.ok THEN effective_threshold
             ELSE TrueDiv(Mul(debt_amount, debt_price),
                          Mul(collateral_amount, effective_threshold.val))

CriticalThreshold == Num(105, 100)

DefaultAlertThreshold == Num(12, 10)

\* should_alert with the critical tier including its boundary
should_alert_inclusive(health_factor, threshold) ==
    IF Le(health_factor, CriticalThreshold) THEN <<TRUE, "critical">>
    ELSE IF Lt(health_factor, threshold) THEN <<TRUE, "warning">>
    ELSE <<FALSE, "safe">>

should_alert(health_factor, threshold) ==
    IF Lt(health_factor, CriticalThreshold) THEN <<TRUE, "critical">>
    ELSE IF Lt(health_factor, threshold) THEN <<TRUE, "warning">>
    ELSE <<FALSE, "safe">>

----------------------------------------------------------------------------
(* Protocol adapters: src/src/protocol_interfaces.py *)

ProtocolTypes == { "aave_v3", "compound_v3", "spark", "radiant" }

AaveFamily == { "aave_v3", "spark", "radiant" }

CHAIN_NAMES ==
    [c \in { 1, 137, 42161, 10, 8453, 43114, 56 } |->
        CASE c = 1 -> "Ethereum" [] c = 137 -> "Polygon" [] c = 42161 -> "Arbitrum"
          [] c = 10 -> "Optimism" [] c = 8453 -> "Base" [] c = 43114 -> "Avalanche"
          [] c = 56 -> "BSC"]

\* the chains of each address table
AAVE_V3_POOL_ADDRESSES == { 1, 137, 42161, 10, 8453, 43114 }

COMPOUND_V3_COMET_ADDRESSES == { 1, 137, 42161, 8453 }

SPARK_POOL_ADDRESSES == { 1 }

RADIANT_POOL_ADDRESSES == { 42161, 43114, 56 }

\* the chains a protocol has a contract address for
Registered(protocol) ==
    CASE protocol = "aave_v3" -> AAVE_V3_POOL_ADDRESSES
      [] protocol = "compound_v3" -> COMPOUND_V3_COMET_ADDRESSES
      [] protocol = "spark" -> SPARK_POOL_ADDRESSES
      [] protocol = "radiant" -> RADIANT_POOL_ADDRESSES

\* ProtocolInterface.__init__: the provider's connectivity check, one
\* network operation, raising ConnectionError when it answers no.
ProtocolInterfaceInit(connected, log) ==
    [err |-> IF connected THEN "" ELSE "ConnectionError",
     net |-> Append(log, "is_connected")]

\* AaveV3Interface.__init__ and CompoundV3Interface.__init__: the base
\* initializer first, the address table after it.
BaseThenTable(protocol, chain_id, connected, log) ==
    LET base == ProtocolInterfaceInit(connected, log)
    IN  IF base.err # "" THEN base
        ELSE IF chain_id \notin Registered(protocol)
             THEN [err |-> "ValueError", net |-> base.net]
             ELSE base

\* SparkInterface.__init__ and RadiantInterface.__init__: the address
\* table first, the base initializer after it.
TableThenBase(protocol, chain_id, connected, log) ==
    IF chain_id \notin Registered(protocol)
    THEN [err |-> "ValueError", net |-> log]
    ELSE ProtocolInterfaceInit(connected, log)

\* get_protocol_interface: the constructor of the protocol's class
get_protocol_interface(protocol, chain_id, connected, log) ==
    IF protocol \in { "aave_v3", "compound_v3" }
    THEN BaseThenTable(protocol, chain_id, connected, log)
    ELSE TableThenBase(protocol, chain_id, connected, log)

\* x / 1e<k>
ScaleDown(x, k) == Norm(x.n, x.d, x.e - k)

\* AaveNormalize with the thresholds read as percentages (two decimals)
AaveNormalize_percent(r) ==
    [total_collateral_usd |-> ScaleDown(r[1], 8),
     total_debt_usd |-> ScaleDown(r[2], 8),
     available_borrows_usd |-> ScaleDown(r[3], 8),
     liquidation_threshold |-> ScaleDown(r[4], 2),
     ltv |-> ScaleDown(r[5], 2),
     health_factor |-> ScaleDown(r[6], 18),
     positions |-> <<>>]

\* AaveV3Interface.get_user_account_data, the conversion of the six values
AaveNormalize(r) ==
    [total_collateral_usd |-> ScaleDown(r[1], 8),
     total_debt_usd |-> ScaleDown(r[2], 8),
     available_borrows_usd |-> ScaleDown(r[3], 8),
     liquidation_threshold |-> ScaleDown(r[4], 4),
     ltv |-> ScaleDown(r[5], 4),
     health_factor |-> ScaleDown(r[6], 18),
     positions |-> <<>>]

\* CompoundNormalize with the debt scaled like the collateral, by 1e8
CompoundNormalize_debt_1e8(borrow_balance, collateral_balance, price) ==
    LET total_debt_usd == ScaleDown(borrow_balance, 8)
        total_collateral_usd == ScaleDown(Mul(collateral_balance, price), 14)
        liquidation_threshold == Num(8, 10)
        health_factor ==
            IF Gt(total_debt_usd, Zero)
            THEN TrueDiv(Mul(total_collateral_usd, liquidation_threshold),
                         total_debt_usd).val
            ELSE Inf
    IN  [total_collateral_usd |-> total_collateral_usd,
         total_debt_usd |-> total_debt_usd,
         available_borrows_usd |-> Zero,
         liquidation_threshold |-> liquidation_threshold,
         ltv |-> Num(75, 100),
         health_factor |-> health_factor,
         positions |-> <<>>]

\* CompoundV3Interface.get_user_account_data, the computation on the three
\* values read
CompoundNormalize(borrow_balance, collateral_balance, price) ==
    LET total_debt_usd == ScaleDown(borrow_balance, 6)
        total_collateral_usd == ScaleDown(Mul(collateral_balance, price), 14)
        liquidation_threshold == Num(8, 10)
        health_factor ==
            IF Gt(total_debt_usd, Zero)
            THEN TrueDiv(Mul(total_collateral_usd, liquidation_threshold),
                         total_debt_usd).val
            ELSE Inf
    IN  [total_collateral_usd |-> total_collateral_usd,
         total_debt_usd |-> total_debt_usd,
         available_borrows_usd |-> Zero,
         liquidation_threshold |-> liquidation_threshold,
         ltv |-> Num(75, 100),
         health_factor |-> health_factor,
         positions |-> <<>>]

\* Web3.to_checksum_address accepts the wallet
Wallets == { "0x01D11F7e1a46AbFC6092d7be484895D2d505095c", "not-an-address" }

IsAddress(wallet) == wallet = "0x01D11F7e1a46AbFC6092d7be484895D2d505095c"

----------------------------------------------------------------------------
(* The chain: what the contracts answer *)

\* the on-chain integer m * 10^e
Raw(m, e) == Norm(m, 1, e)

\* type(uint256).max = 2^256 - 1 = 1.15792...e77, which the pool returns as
\* the health factor of an account without debt (written to six digits)
UINT256_MAX == Raw(115792, 72)

AaveCollateral == { Zero, Raw(1, 10), Raw(5, 11) }

AaveDebt == { Zero, Raw(5, 9), Raw(25, 10) }

AaveAvailable == { Zero, Raw(1, 10) }

AaveThreshold == { Zero, Raw(8, 3), Raw(825, 1) }

AaveLtv == { Raw(75, 2), Raw(8, 3) }

AaveHealth ==
    { Raw(5, 17), Raw(1, 18), Raw(100001, 13), Raw(1049, 15), Raw(105, 16),
      Raw(11, 17), Raw(1199, 15), Raw(12, 17), Raw(15, 17), Raw(165, 16) }

\* getUserAccountData's answers: the health factor is uint256 max exactly
\* when the account has no debt
AaveReplies ==
    { r \in AaveCollateral \X AaveDebt \X AaveAvailable \X AaveThreshold \X AaveLtv
            \X (AaveHealth \cup { UINT256_MAX }) :
        (r[6] = UINT256_MAX) <=> IsZero(r[2]) }

CompoundBorrow == { Zero, Raw(5, 7), Raw(1, 8) }

CompoundCollateral == { Zero, Raw(5, 9), Raw(1, 10) }

CompoundPrice == { Raw(1, 6), Raw(2, 6) }

CompoundReads == << "borrowBalanceOf", "collateralBalanceOf", "getPrice" >>

----------------------------------------------------------------------------
(* Adapter construction and fetch *)

\* get_protocol_interface(protocol, chain_id, rpc_url): whether the
\* provider is reachable is the environment's choice
Construct ==
    /\ pc = "construct"
    /\ \E connected \in BOOLEAN :
          LET out == get_protocol_interface(adapter.protocol, adapter.chain_id,
                                            connected, net)
          IN  /\ net' = out.net
              /\ adapter' = [adapter EXCEPT !.err = out.err]
              /\ pc' = IF out.err = "" THEN "constructed" ELSE "construct_failed"
    /\ UNCHANGED <<concurrent, calc, feed, req, raw, account_data, position, response>>

\* FetchAave issuing a failed read a second time before giving up
FetchAave_retry ==
    /\ pc = "constructed"
    /\ adapter.protocol \in AaveFamily
    /\ \/ /\ ~IsAddress(req.wallet)
          /\ account_data' = None
          /\ UNCHANGED <<net, raw>>
       \/ /\ IsAddress(req.wallet)
          /\ net' = net \o <<"getUserAccountData", "getUserAccountData">>
          /\ account_data' = None
          /\ UNCHANGED raw
       \/ /\ IsAddress(req.wallet)
          /\ \E r \in AaveReplies :
                /\ net' = Append(net, "getUserAccountData")
                /\ raw' = r
                /\ account_data' = AaveNormalize(r)
    /\ pc' = "fetched"
    /\ UNCHANGED <<concurrent, calc, feed, req, adapter, position, response>>

\* AaveV3Interface.get_user_account_data(wallet), inherited by Spark and Radiant
FetchAave ==
    /\ pc = "constructed"
    /\ adapter.protocol \in AaveFamily
    /\ \/ /\ ~IsAddress(req.wallet)
          /\ account_data' = None
          /\ UNCHANGED <<net, raw>>
       \/ /\ IsAddress(req.wallet)
          /\ net' = Append(net, "getUserAccountData")
          /\ account_data' = None
          /\ UNCHANGED raw
       \/ /\ IsAddress(req.wallet)
          /\ \E r \in AaveReplies :
                /\ net' = Append(net, "getUserAccountData")
                /\ raw' = r
                /\ account_data' = AaveNormalize(r)
    /\ pc' = "fetched"
    /\ UNCHANGED <<concurrent, calc, feed, req, adapter, position, response>>

\* FetchCompound answering a failed price read with the balances it has and a
\* zero price, where the code answers None
FetchCompound_partial ==
    /\ pc = "constructed"
    /\ adapter.protocol = "compound_v3"
    /\ \/ /\ ~IsAddress(req.wallet)
          /\ account_data' = None
          /\ UNCHANGED <<net, raw>>
       \/ /\ IsAddress(req.wallet)
          /\ \E failing \in 1 .. 3, b \in CompoundBorrow, c \in CompoundCollateral :
                /\ net' = net \o SubSeq(CompoundReads, 1, failing)
                /\ raw' = SubSeq(<<b, c>>, 1, failing - 1)
                /\ account_data' = IF failing = 3 THEN CompoundNormalize(b, c, Zero)
                                   ELSE None
       \/ /\ IsAddress(req.wallet)
          /\ \E b \in CompoundBorrow, c \in CompoundCollateral, p \in CompoundPrice :
                /\ net' = net \o CompoundReads
                /\ raw' = <<b, c, p>>
                /\ account_data' = CompoundNormalize(b, c, p)
    /\ pc' = "fetched"
    /\ UNCHANGED <<concurrent, calc, feed, req, adapter, position, response>>

\* CompoundV3Interface.get_user_account_data(wallet)
FetchCompound ==
    /\ pc = "constructed"
    /\ adapter.protocol = "compound_v3"
    /\ \/ /\ ~IsAddress(req.wallet)
          /\ account_data' = None
          /\ UNCHANGED <<net, raw>>
       \/ /\ IsAddress(req.wallet)
          /\ \E failing \in 1 .. 3, b \in CompoundBorrow, c \in CompoundCollateral :
                /\ net' = net \o SubSeq(CompoundReads, 1, failing)
                /\ raw' = SubSeq(<<b, c>>, 1, failing - 1)
                /\ account_data' = None
       \/ /\ IsAddress(req.wallet)
          /\ \E b \in CompoundBorrow, c \in CompoundCollateral, p \in CompoundPrice :
                /\ net' = net \o CompoundReads
                /\ raw' = <<b, c, p>>
                /\ account_data' = CompoundNormalize(b, c, p)
    /\ pc' = "fetched"
    /\ UNCHANGED <<concurrent, calc, feed, req, adapter, position, response>>

----------------------------------------------------------------------------
(* Position Monitor: LendingMonitor.monitor_position *)

\* the keys of LendingMonitor.rpc_urls, filled from DEFAULT_RPC_URLS
rpc_urls == { 1, 137, 42161, 10, 8453, 43114, 56 }

\* MonitorResult computing the liquidation price whenever there is debt,
\* without looking at the collateral
MonitorResult_debt_only(data, chain_id) ==
    IF data = None THEN None
    ELSE LET liq_price ==
                 IF Gt(data.total_debt_usd, Zero)
                 THEN TrueDiv(data.total_debt_usd,
                              Mul(data.total_collateral_usd, data.liquidation_threshold))
                 ELSE Ret(None)
         IN  IF ~liq_price.ok THEN None
             ELSE [chain_name |-> CHAIN_NAMES[chain_id],
                   health_factor |-> data.health_factor,
                   liq_price |-> liq_price.val,
                   total_collateral_usd |-> data.total_collateral_usd,
                   total_debt_usd |-> data.total_debt_usd,
                   liquidation_threshold |-> data.liquidation_threshold,
                   ltv |-> data.ltv,
                   positions |-> data.positions]

\* monitor_position after the fetch: the liquidation price and the result
\* record; an exception (the division by a zero threshold) gives None
MonitorResult(data, chain_id) ==
    IF data = None THEN None
    ELSE LET liq_price ==
                 IF Gt(data.total_debt_usd, Zero) /\ Gt(data.total_collateral_usd, Zero)
                 THEN TrueDiv(data.total_debt_usd,
                              Mul(data.total_collateral_usd, data.liquidation_threshold))
                 ELSE Ret(None)
         IN  IF ~liq_price.ok THEN None
             ELSE [chain_name |-> CHAIN_NAMES[chain_id],
                   health_factor |-> data.health_factor,
                   liq_price |-> liq_price.val,
                   total_collateral_usd |-> data.total_collateral_usd,
                   total_debt_usd |-> data.total_debt_usd,
                   liquidation_threshold |-> data.liquidation_threshold,
                   ltv |-> data.ltv,
                   positions |-> data.positions]

\* MonitorStart without the chain check
MonitorStart_no_chain_check ==
    /\ pc = "monitor"
    /\ adapter' = [protocol |-> req.protocol_ids[1], chain_id |-> req.chain_id,
                   err |-> ""]
    /\ pc' = "construct"
    /\ UNCHANGED <<concurrent, calc, feed, req, net, raw, account_data, position, response>>

\* monitor_position up to the adapter's construction: the chain check
MonitorStart ==
    /\ pc = "monitor"
    /\ IF req.chain_id \notin rpc_urls
       THEN /\ position' = None
            /\ pc' = "monitored"
            /\ UNCHANGED adapter
       ELSE /\ adapter' = [protocol |-> req.protocol_ids[1], chain_id |-> req.chain_id,
                           err |-> ""]
            /\ pc' = "construct"
            /\ UNCHANGED position
    /\ UNCHANGED <<concurrent, calc, feed, req, net, raw, account_data, response>>

\* monitor_position's except clause, on an exception of the construction
MonitorExcept ==
    /\ pc = "construct_failed"
    /\ position' = None
    /\ pc' = "monitored"
    /\ UNCHANGED <<concurrent, calc, feed, req, adapter, net, raw, account_data, response>>

\* monitor_position from the fetch's return to its own
MonitorAssemble ==
    /\ pc = "fetched"
    /\ position' = MonitorResult(account_data, req.chain_id)
    /\ pc' = "monitored"
    /\ UNCHANGED <<concurrent, calc, feed, req, adapter, net, raw, account_data, response>>

----------------------------------------------------------------------------
(* The /lending/monitor endpoint: src/src/main.py *)

\* the severity the endpoint derives from the health factor
Severity(hf) ==
    IF Lt(hf, Num(105, 100)) THEN "critical"
    ELSE IF Lt(hf, Num(12, 10)) THEN "warning"
    ELSE "safe"

\* BufferPercent without the floor at zero for liquidatable positions
BufferPercent_unfloored(hf) == Mul(TrueDiv(Sub(hf, One), One).val, Num(100, 1))

\* the buffer the endpoint derives from the health factor
BufferPercent(hf) ==
    IF Gt(hf, One) THEN Mul(TrueDiv(Sub(hf, One), One).val, Num(100, 1)) ELSE Zero

\* the flag alert_threshold_hit
AlertThresholdHit(hf) == Lt(hf, Num(12, 10))

HTTPException(status, detail) == [status |-> status, detail |-> detail]

\* the MonitorResponse built from monitor_position's result
MonitorResponse(request, data) ==
    LET hf == data.health_factor
    IN  [status |-> 200,
         wallet |-> request.wallet,
         protocol |-> request.protocol_ids[1],
         chain_id |-> request.chain_id,
         chain_name |-> data.chain_name,
         health_factor |-> Round(hf, 4),
         liq_price |-> data.liq_price,
         buffer_percent |-> Round(BufferPercent(hf), 2),
         alert_threshold_hit |-> AlertThresholdHit(hf),
         severity |-> Severity(hf),
         total_collateral_usd |-> Round(data.total_collateral_usd, 2),
         total_debt_usd |-> Round(data.total_debt_usd, 2),
         liquidation_threshold |-> Round(data.liquidation_threshold, 4),
         positions |-> data.positions]

\* the endpoint up to its call of lending_monitor.monitor_position
EndpointValidate ==
    /\ pc = "endpoint"
    /\ IF req.protocol_ids = <<>>
       THEN /\ response' = HTTPException(400, "At least one protocol_id is required")
            /\ pc' = "done"
       ELSE IF req.protocol_ids[1] \notin ProtocolTypes
       THEN /\ response' = HTTPException(400, "Invalid protocol")
            /\ pc' = "done"
       ELSE /\ pc' = "monitor"
            /\ UNCHANGED response
    /\ UNCHANGED <<concurrent, calc, feed, req, adapter, net, raw, account_data, position>>

\* the endpoint from monitor_position's return to the response
EndpointRespond ==
    /\ pc = "monitored"
    /\ response' = IF position = None
                   THEN HTTPException(503, "Failed to fetch position data")
                   ELSE MonitorResponse(req, position)
    /\ pc' = "done"
    /\ UNCHANGED <<concurrent, calc, feed, req, adapter, net, raw, account_data, position>>

----------------------------------------------------------------------------
(* The price feed: src/src/price_feed.py *)

\* the symbol table: symbol to external identifier
COINGECKO_IDS ==
    [s \in {"ETH", "WETH", "MATIC", "WMATIC", "USDC", "USDT", "DAI", "WBTC", "LINK",
            "AAVE", "CRV", "UNI", "SUSHI", "AVAX", "WAVAX", "BNB", "WBNB"} |->
        CASE s \in {"ETH", "WETH"} -> "ethereum"
          [] s \in {"MATIC", "WMATIC"} -> "matic-network"
          [] s = "USDC" -> "usd-coin"
          [] s = "USDT" -> "tether"
          [] s = "DAI" -> "dai"
          [] s = "WBTC" -> "wrapped-bitcoin"
          [] s = "LINK" -> "chainlink"
          [] s = "AAVE" -> "aave"
          [] s = "CRV" -> "curve-dao-token"
          [] s = "UNI" -> "uniswap"
          [] s = "SUSHI" -> "sushi"
          [] s \in {"AVAX", "WAVAX"} -> "avalanche-2"
          [] s \in {"BNB", "WBNB"} -> "binancecoin"]

\* the symbols callers ask for: in the table, in the table but for the case,
\* and in no table
Symbols == { "ETH", "WETH", "eth", "USDC", "UNKNOWNXYZ" }

\* str.upper on the symbols
Upper(s) == IF s = "eth" THEN "ETH" ELSE s

\* a dict with no key
EmptyDict == [k \in {} |-> None]

\* d[k] = v
SetItem(d, k, v) == [x \in DOMAIN d \cup {k} |-> IF x = k THEN v ELSE d[x]]

RECURSIVE MapSymbols_case_sensitive(_, _, _, _)
\* MapSymbols looking the symbol up as given, without upper()
MapSymbols_case_sensitive(symbols, i, coingecko_ids, symbol_to_id) ==
    IF i > Len(symbols) THEN [coingecko_ids |-> coingecko_ids, symbol_to_id |-> symbol_to_id]
    ELSE LET symbol == symbols[i]
         IN  IF symbol \in DOMAIN COINGECKO_IDS
             THEN MapSymbols_case_sensitive(symbols, i + 1,
                      Append(coingecko_ids, COINGECKO_IDS[symbol]),
                      SetItem(symbol_to_id, COINGECKO_IDS[symbol], Upper(symbol)))
             ELSE MapSymbols_case_sensitive(symbols, i + 1, coingecko_ids, symbol_to_id)

RECURSIVE MapSymbols(_, _, _, _)
\* get_token_prices' loop over the symbols, from the i-th on: the identifiers
\* to query, in order, and the dict from identifier to symbol
MapSymbols(symbols, i, coingecko_ids, symbol_to_id) ==
    IF i > Len(symbols) THEN [coingecko_ids |-> coingecko_ids, symbol_to_id |-> symbol_to_id]
    ELSE LET symbol == symbols[i]
         IN  IF Upper(symbol) \in DOMAIN COINGECKO_IDS
             THEN MapSymbols(symbols, i + 1,
                      Append(coingecko_ids, COINGECKO_IDS[Upper(symbol)]),
                      SetItem(symbol_to_id, COINGECKO_IDS[Upper(symbol)], Upper(symbol)))
             ELSE MapSymbols(symbols, i + 1, coingecko_ids, symbol_to_id)

RECURSIVE ParseReply_keyed_by_id(_, _, _, _)
\* ParseReply storing each price under the response's identifier
ParseReply_keyed_by_id(data, i, symbol_to_id, prices) ==
    IF i > Len(data) THEN prices
    ELSE LET cg_id == data[i].id
             price_data == data[i].price_data
         IN  IF "usd" \in DOMAIN price_data
             THEN IF cg_id \notin DOMAIN symbol_to_id THEN prices
                  ELSE ParseReply_keyed_by_id(data, i + 1, symbol_to_id,
                                              SetItem(prices, cg_id, price_data.usd))
             ELSE ParseReply_keyed_by_id(data, i + 1, symbol_to_id, prices)

RECURSIVE ParseReply(_, _, _, _)
\* get_token_prices' loop over the items of the response, from the i-th on;
\* an identifier that symbol_to_id lacks raises KeyError, and the except
\* clause returns the prices gathered so far
ParseReply(data, i, symbol_to_id, prices) ==
    IF i > Len(data) THEN prices
    ELSE LET cg_id == data[i].id
             price_data == data[i].price_data
         IN  IF "usd" \in DOMAIN price_data
             THEN IF cg_id \notin DOMAIN symbol_to_id THEN prices
                  ELSE ParseReply(data, i + 1, symbol_to_id,
                                  SetItem(prices, symbol_to_id[cg_id], price_data.usd))
             ELSE ParseReply(data, i + 1, symbol_to_id, prices)

\* an Optional value: <<>> for None (and for an argument left out), <<v>> for v
Absent == <<>>

\* get_price_from_chainlink: a placeholder that returns None
get_price_from_chainlink(token_address, chain_id, rpc_url) == Absent

\* get_price_from_protocol: a placeholder that returns None
get_price_from_protocol(protocol_oracle_address, token_address, rpc_url) == Absent

\* what the aggregator can answer: the identifiers of the response, each with
\* or without a usd field, in the order of the response's items
ReplyIds == { "ethereum", "usd-coin", "dogecoin" }

UsdValues == { 1, 2000 }

PriceData == { [usd |-> v] : v \in UsdValues } \cup { [eur |-> 1] }

MaxReply == 2

ReplyData ==
    UNION { { d \in [1 .. n -> [id : ReplyIds, price_data : PriceData]] :
                \A i, j \in 1 .. n : i < j => d[i].id # d[j].id } : n \in 0 .. MaxReply }

\* no price feed call under way
PriceIdle == feed = [fn |-> "none", pc |-> "idle"]

\* get_token_price_with_fallback up to its call of get_token_prices: the
\* on-chain oracle, consulted when the three optional arguments are given
FallbackChainlink ==
    /\ feed.fn = "get_token_price_with_fallback"
    /\ feed.pc = "start"
    /\ IF feed.token_address # Absent /\ feed.chain_id # Absent /\ feed.rpc_url # Absent
       THEN LET chainlink_price ==
                    get_price_from_chainlink(feed.token_address[1], feed.chain_id[1],
                                             feed.rpc_url[1])
            IN  IF chainlink_price # Absent
                THEN feed' = [feed EXCEPT
                                  !.calls = Append(@, "get_price_from_chainlink"),
                                  !.ret = chainlink_price,
                                  !.pc = "returned"]
                ELSE feed' = [feed EXCEPT
                                  !.calls = Append(@, "get_price_from_chainlink"),
                                  !.pc = "prices"]
       ELSE feed' = [feed EXCEPT !.pc = "prices"]
    /\ UNCHANGED <<concurrent, calc, pipeline>>

\* get_token_prices up to its request to the aggregator
PricesStart ==
    /\ feed.pc = "prices"
    /\ LET m == MapSymbols(feed.symbols, 1, <<>>, EmptyDict)
       IN  IF m.coingecko_ids = <<>>
           THEN feed' = [feed EXCEPT
                             !.calls = Append(@, "get_token_prices"),
                             !.symbol_to_id = m.symbol_to_id,
                             !.prices = EmptyDict,
                             !.pc = "prices_done"]
           ELSE feed' = [feed EXCEPT
                             !.calls = Append(@, "get_token_prices"),
                             !.symbol_to_id = m.symbol_to_id,
                             !.queries = Append(@, m.coingecko_ids),
                             !.pc = "awaiting"]
    /\ UNCHANGED <<concurrent, calc, pipeline>>

\* PricesReply with a query that has no deadline: without an answer the call
\* stays pending
PricesReply_no_deadline ==
    /\ feed.pc = "awaiting"
    /\ \/ feed' = [feed EXCEPT !.pc = "pending"]
       \/ \E data \in ReplyData :
             feed' = [feed EXCEPT
                          !.reply = [error |-> "", data |-> data],
                          !.prices = ParseReply(data, 1, feed.symbol_to_id, EmptyDict),
                          !.pc = "prices_done"]
    /\ UNCHANGED <<concurrent, calc, pipeline>>

\* get_token_prices from the aggregator's answer to its return
PricesReply ==
    /\ feed.pc = "awaiting"
    /\ \/ \E e \in {"HTTPStatusError", "TimeoutException"} :
             feed' = [feed EXCEPT
                          !.reply = [error |-> e, data |-> <<>>],
                          !.prices = EmptyDict,
                          !.pc = "prices_done"]
       \/ \E data \in ReplyData :
             feed' = [feed EXCEPT
                          !.reply = [error |-> "", data |-> data],
                          !.prices = ParseReply(data, 1, feed.symbol_to_id, EmptyDict),
                          !.pc = "prices_done"]
    /\ UNCHANGED <<concurrent, calc, pipeline>>

\* FallbackReturn looking the symbol up as given, without upper()
FallbackReturn_as_given ==
    /\ feed.fn = "get_token_price_with_fallback"
    /\ feed.pc = "prices_done"
    /\ LET symbol == feed.symbols[1]
       IN  feed' = [feed EXCEPT
                        !.ret = IF symbol \in DOMAIN feed.prices
                                THEN <<feed.prices[symbol]>>
                                ELSE Absent,
                        !.pc = "returned"]
    /\ UNCHANGED <<concurrent, calc, pipeline>>

\* get_token_price_with_fallback from get_token_prices' return to its own
FallbackReturn ==
    /\ feed.fn = "get_token_price_with_fallback"
    /\ feed.pc = "prices_done"
    /\ LET symbol == feed.symbols[1]
       IN  feed' = [feed EXCEPT
                        !.ret = IF Upper(symbol) \in DOMAIN feed.prices
                                THEN <<feed.prices[Upper(symbol)]>>
                                ELSE Absent,
                        !.pc = "returned"]
    /\ UNCHANGED <<concurrent, calc, pipeline>>

----------------------------------------------------------------------------
(* Concurrent monitor_position calls on the one LendingMonitor of main.py *)

\* LendingMonitor.DEFAULT_RPC_URLS
DEFAULT_RPC_URLS ==
    [c \in rpc_urls |->
        CASE c = 1 -> "https://eth.llamarpc.com"
          [] c = 137 -> "https://polygon.llamarpc.com"
          [] c = 42161 -> "https://arbitrum.llamarpc.com"
          [] c = 10 -> "https://optimism.llamarpc.com"
          [] c = 8453 -> "https://base.llamarpc.com"
          [] c = 43114 -> "https://avalanche.llamarpc.com"
          [] c = 56 -> "https://binance.llamarpc.com"]

\* LendingMonitor.__init__, no CHAIN_<id>_RPC_URL being set
LendingMonitorInit == [rpc_urls |-> DEFAULT_RPC_URLS]

\* no concurrent calls under way
ConcurrentIdle == lending_monitor = LendingMonitorInit /\ requests = <<>>

\* get_user_account_data(wallet) of the adapter of a protocol, the chain
\* answering its reads with the values of fetch, or failing the read number
\* fetch.failing: the reads issued, the values read, the account data
FetchOutcome(protocol, wallet, fetch) ==
    IF ~IsAddress(wallet)
    THEN [net |-> <<>>, raw |-> <<>>, account_data |-> None]
    ELSE IF protocol \in AaveFamily
    THEN IF fetch.failing # 0
         THEN [net |-> <<"getUserAccountData">>, raw |-> <<>>, account_data |-> None]
         ELSE [net |-> <<"getUserAccountData">>, raw |-> fetch.values,
               account_data |-> AaveNormalize(fetch.values)]
    ELSE IF fetch.failing # 0
         THEN [net |-> SubSeq(CompoundReads, 1, fetch.failing),
               raw |-> SubSeq(fetch.values, 1, fetch.failing - 1),
               account_data |-> None]
         ELSE [net |-> CompoundReads, raw |-> fetch.values,
               account_data |-> CompoundNormalize(fetch.values[1], fetch.values[2],
                                                  fetch.values[3])]

\* requests' with the state of call i replaced
SetRequest(i, r) == requests' = [requests EXCEPT ![i] = r]

\* monitor_position up to the adapter's construction, in call i
ConcMonitorStart(i) ==
    /\ requests[i].pc = "monitor"
    /\ LET r == requests[i]
       IN  IF r.req.chain_id \notin DOMAIN lending_monitor.rpc_urls
           THEN SetRequest(i, [r EXCEPT !.position = None, !.pc = "monitored"])
           ELSE SetRequest(i, [r EXCEPT
                    !.adapter = [protocol |-> r.req.protocol, chain_id |-> r.req.chain_id,
                                 rpc_url |-> lending_monitor.rpc_urls[r.req.chain_id],
                                 err |-> ""],
                    !.pc = "construct"])
    /\ UNCHANGED <<lending_monitor, calc, feed, pipeline>>

\* get_protocol_interface in call i
ConcConstruct(i) ==
    /\ requests[i].pc = "construct"
    /\ LET r == requests[i]
           out == get_protocol_interface(r.adapter.protocol, r.adapter.chain_id,
                                         r.chain.connected, r.net)
       IN  SetRequest(i, [r EXCEPT
               !.net = out.net,
               !.adapter.err = out.err,
               !.pc = IF out.err = "" THEN "constructed" ELSE "construct_failed"])
    /\ UNCHANGED <<lending_monitor, calc, feed, pipeline>>

\* get_user_account_data in call i
ConcFetch(i) ==
    /\ requests[i].pc = "constructed"
    /\ LET r == requests[i]
           out == FetchOutcome(r.adapter.protocol, r.req.wallet, r.chain.fetch)
       IN  SetRequest(i, [r EXCEPT
               !.net = r.net \o out.net,
               !.raw = out.raw,
               !.account_data = out.account_data,
               !.pc = "fetched"])
    /\ UNCHANGED <<lending_monitor, calc, feed, pipeline>>

\* ConcMonitorExcept taking the chain whose provider failed off the shared
\* table of endpoints
ConcMonitorExcept_drops_chain(i) ==
    /\ requests[i].pc = "construct_failed"
    /\ SetRequest(i, [requests[i] EXCEPT !.position = None, !.pc = "monitored"])
    /\ lending_monitor' =
          [lending_monitor EXCEPT
              !.rpc_urls = [c \in DOMAIN @ \ {requests[i].req.chain_id} |-> @[c]]]
    /\ UNCHANGED <<calc, feed, pipeline>>

\* monitor_position's except clause in call i
ConcMonitorExcept(i) ==
    /\ requests[i].pc = "construct_failed"
    /\ SetRequest(i, [requests[i] EXCEPT !.position = None, !.pc = "monitored"])
    /\ UNCHANGED <<lending_monitor, calc, feed, pipeline>>

\* monitor_position from the fetch's return to its own, in call i
ConcMonitorAssemble(i) ==
    /\ requests[i].pc = "fetched"
    /\ LET r == requests[i]
       IN  SetRequest(i, [r EXCEPT
               !.position = MonitorResult(r.account_data, r.req.chain_id),
               !.pc = "monitored"])
    /\ UNCHANGED <<lending_monitor, calc, feed, pipeline>>

----------------------------------------------------------------------------
(* Inputs of the Risk Calculator *)

MaxAmount == 3

\* amounts and USD values: -50, 0, 50, 100, ...
Amounts == { Num(50 * k, 1) : k \in -1 .. MaxAmount }

Thresholds == { Num(-1, 10), Zero, Num(1, 2), Num(8, 10), One, Num(12, 10) }

Prices == { Num(1, 1), Num(2, 1) }

Bonuses == { Num(1, 1), Num(105, 100), Num(11, 10), Num(2, 1), Zero }

\* the optional argument liquidation_bonus: <<>> when the caller omits it
BonusArgs == { <<>> } \cup { <<b>> : b \in Bonuses }

HealthFactors ==
    { Zero, Num(1, 2), One, Num(100001, 100000), Num(1049, 1000), Num(105, 100),
      Num(11, 10), Num(1199, 1000), Num(12, 10), Num(15, 10), Num(3, 1), Inf,
      Num(-1, 2) }

AlertThresholds == { One, Num(105, 100), Num(11, 10), Num(12, 10), Num(2, 1) }

\* the optional argument threshold: <<>> when the caller omits it
AlertArgs == { <<>> } \cup { <<a>> : a \in AlertThresholds }

----------------------------------------------------------------------------
(* The Risk Calculator called on any inputs *)

\* A call not yet made: the method and its arguments.
CalcCalls ==
    { [fn |-> "calculate_health_factor", done |-> FALSE, c |-> c, d |-> d, t |-> t] :
        c \in Amounts, d \in Amounts, t \in Thresholds }
    \cup
    { [fn |-> "calculate_liquidation_price", done |-> FALSE, c |-> c, d |-> d,
       p |-> p, t |-> t, b |-> b] :
        c \in Amounts, d \in Amounts, p \in Prices, t \in Thresholds, b \in BonusArgs }
    \cup
    { [fn |-> "should_alert", done |-> FALSE, hf |-> hf, a |-> a] :
        hf \in HealthFactors, a \in AlertArgs }

\* no request in the pipeline
PipelineIdle ==
    /\ req = None /\ pc = "idle" /\ adapter = None /\ net = <<>> /\ raw = <<>>
    /\ account_data = None /\ position = None /\ response = None

InitCalc == calc \in CalcCalls /\ PipelineIdle /\ PriceIdle /\ ConcurrentIdle

CallHealthFactor ==
    /\ calc.fn = "calculate_health_factor" /\ ~calc.done
    /\ calc' = [fn |-> calc.fn, done |-> TRUE, c |-> calc.c, d |-> calc.d, t |-> calc.t,
                 ret |-> calculate_health_factor(calc.c, calc.d, calc.t)]
    /\ UNCHANGED <<concurrent, feed, pipeline>>

\* the value of liquidation_bonus in a call: the default when omitted
BonusOf(arg) == IF arg = <<>> THEN DefaultLiquidationBonus ELSE arg[1]

CallLiquidationPrice ==
    /\ calc.fn = "calculate_liquidation_price" /\ ~calc.done
    /\ calc' = [fn |-> calc.fn, done |-> TRUE, c |-> calc.c, d |-> calc.d, p |-> calc.p,
                 t |-> calc.t, b |-> calc.b,
                 ret |-> calculate_liquidation_price(calc.c, calc.d, calc.p, calc.t,
                                                     BonusOf(calc.b))]
    /\ UNCHANGED <<concurrent, feed, pipeline>>

\* the value of threshold in a call: the default when omitted
ThresholdOf(arg) == IF arg = <<>> THEN DefaultAlertThreshold ELSE arg[1]

CallShouldAlert ==
    /\ calc.fn = "should_alert" /\ ~calc.done
    /\ calc' = [fn |-> calc.fn, done |-> TRUE, hf |-> calc.hf, a |-> calc.a,
                 ret |-> should_alert(calc.hf, ThresholdOf(calc.a))]
    /\ UNCHANGED <<concurrent, feed, pipeline>>

NextCalc == CallHealthFactor \/ CallLiquidationPrice \/ CallShouldAlert

SpecCalc == InitCalc /\ [][NextCalc]_vars

----------------------------------------------------------------------------
(* An adapter constructed and used directly, for any protocol and chain *)

\* no Risk Calculator call under way
CalcIdle == calc = [fn |-> "none", done |-> TRUE]

\* chain ids: the seven supported ones and one that no table holds
ChainIds == { 1, 137, 42161, 10, 8453, 43114, 56, 999 }

InitAdapter ==
    /\ CalcIdle
    /\ \E w \in Wallets, p \in ProtocolTypes, c \in ChainIds :
          /\ req = [wallet |-> w, protocol_ids |-> <<p>>, chain_id |-> c]
          /\ adapter = [protocol |-> p, chain_id |-> c, err |-> ""]
    /\ pc = "construct"
    /\ net = <<>> /\ raw = <<>>
    /\ account_data = None /\ position = None /\ response = None
    /\ PriceIdle /\ ConcurrentIdle

NextAdapter == Construct \/ FetchAave \/ FetchCompound

SpecAdapter == InitAdapter /\ [][NextAdapter]_vars

----------------------------------------------------------------------------
(* One request to the /lending/monitor endpoint *)

ProtocolIdLists ==
    { <<>>, <<"morpho">>, <<"aave_v3", "compound_v3">> }
    \cup { <<p>> : p \in ProtocolTypes }

Init ==
    /\ CalcIdle
    /\ \E w \in Wallets, ids \in ProtocolIdLists, c \in ChainIds :
          req = [wallet |-> w, protocol_ids |-> ids, chain_id |-> c]
    /\ pc = "endpoint"
    /\ adapter = None
    /\ net = <<>> /\ raw = <<>>
    /\ account_data = None /\ position = None /\ response = None
    /\ PriceIdle /\ ConcurrentIdle

Next ==
    \/ EndpointValidate
    \/ MonitorStart
    \/ Construct
    \/ FetchAave
    \/ FetchCompound
    \/ MonitorExcept
    \/ MonitorAssemble
    \/ EndpointRespond

Spec == Init /\ [][Next]_vars

\* The risk classification in both its places: should_alert called on any
\* inputs, and the endpoint answering a request.
SpecRisk == (InitCalc \/ Init) /\ [][NextCalc \/ Next]_vars

----------------------------------------------------------------------------
(* The price feed called on any symbols, with any answer of the aggregator *)

MaxSymbols == 2

SymbolLists == UNION { [1 .. n -> Symbols] : n \in 0 .. MaxSymbols }

\* a price feed call at its entry
PriceCall(fn, at, symbols, token_address, chain_id, rpc_url) ==
    [fn |-> fn, pc |-> at, symbols |-> symbols,
     token_address |-> token_address, chain_id |-> chain_id, rpc_url |-> rpc_url,
     calls |-> <<>>, queries |-> <<>>, symbol_to_id |-> EmptyDict,
     reply |-> None, prices |-> EmptyDict, ret |-> Absent]

PriceCalls ==
    { PriceCall("get_token_prices", "prices", l, Absent, Absent, Absent) :
        l \in SymbolLists }
    \cup
    { PriceCall("get_token_price_with_fallback", "start", <<s>>, a, c, u) :
        s \in Symbols,
        a \in {Absent, <<"0xC02aaA39b223FE8D0A0e5C4F27eAD9083C756Cc2">>},
        c \in {Absent, <<1>>},
        u \in {Absent, <<"https://eth.llamarpc.com">>} }

InitPrice == CalcIdle /\ PipelineIdle /\ ConcurrentIdle /\ feed \in PriceCalls

NextPrice == FallbackChainlink \/ PricesStart \/ PricesReply \/ FallbackReturn

SpecPrice == InitPrice /\ [][NextPrice]_vars

\* A monitoring request or a price feed call, each from its start to its end
SpecService == (Init \/ InitPrice) /\ [][Next \/ NextPrice]_vars

----------------------------------------------------------------------------
(* Calls of monitor_position interleaved step by step *)

MaxRequests == 2

RequestIds == 1 .. MaxRequests

\* what the chain answers to a call: whether the provider is connected, and
\* the values of the reads or the number of the read that fails (0: none)
ChainAnswer(connected, failing, values) ==
    [connected |-> connected, fetch |-> [failing |-> failing, values |-> values]]

\* a monitor_position call at its entry
MonitorCall(wallet, protocol, chain_id, chain) ==
    [req |-> [wallet |-> wallet, protocol |-> protocol, chain_id |-> chain_id],
     chain |-> chain, pc |-> "monitor", adapter |-> None, net |-> <<>>, raw |-> <<>>,
     account_data |-> None, position |-> None]

\* the calls: an unsupported chain, an unregistered configuration, a provider
\* that is not connected, failed reads, fetched positions with and without
\* debt, and a malformed wallet
MonitorCalls ==
    LET ok == "0x01D11F7e1a46AbFC6092d7be484895D2d505095c"
        aave == <<Raw(1, 10), Raw(5, 9), Zero, Raw(8, 3), Raw(75, 2), Raw(15, 17)>>
        empty == <<Zero, Zero, Zero, Zero, Raw(75, 2), UINT256_MAX>>
        comet == <<Raw(5, 7), Raw(1, 10), Raw(1, 6)>>
    IN  { MonitorCall(ok, "aave_v3", 999, ChainAnswer(TRUE, 1, <<>>)),
          MonitorCall(ok, "spark", 137, ChainAnswer(TRUE, 1, <<>>)),
          MonitorCall(ok, "aave_v3", 1, ChainAnswer(FALSE, 1, <<>>)),
          MonitorCall(ok, "aave_v3", 1, ChainAnswer(TRUE, 1, <<>>)),
          MonitorCall(ok, "aave_v3", 1, ChainAnswer(TRUE, 0, aave)),
          MonitorCall(ok, "aave_v3", 1, ChainAnswer(TRUE, 0, empty)),
          MonitorCall(ok, "compound_v3", 1, ChainAnswer(TRUE, 2, comet)),
          MonitorCall(ok, "compound_v3", 1, ChainAnswer(TRUE, 0, comet)),
          MonitorCall("not-an-address", "aave_v3", 1, ChainAnswer(TRUE, 0, aave)) }

InitConcurrent ==
    /\ CalcIdle /\ PipelineIdle /\ PriceIdle
    /\ lending_monitor = LendingMonitorInit
    /\ requests \in [RequestIds -> MonitorCalls]

NextConcurrent ==
    \E i \in RequestIds :
        \/ ConcMonitorStart(i)
        \/ ConcConstruct(i)
        \/ ConcFetch(i)
        \/ ConcMonitorExcept(i)
        \/ ConcMonitorAssemble(i)

SpecConcurrent == InitConcurrent /\ [][NextConcurrent]_vars

----------------------------------------------------------------------------
(* Claims about the Risk Calculator, checked under SpecCalc *)

LiqPriceDone == calc.fn = "calculate_liquidation_price" /\ calc.done

\* a liquidation-price call with every input positive
LiqPricePositive ==
    /\ LiqPriceDone
    /\ Gt(calc.c, Zero) /\ Gt(calc.d, Zero) /\ Gt(calc.p, Zero)
    /\ Gt(calc.t, Zero) /\ Gt(BonusOf(calc.b), Zero)

\* the result of the same call with another bonus
LiqPriceWith(b2) == calculate_liquidation_price(calc.c, calc.d, calc.p, calc.t, b2)

HealthFactorDone == calc.fn = "calculate_health_factor" /\ calc.done

\* C4: calculate_health_factor(c, d, t) returns +infinity whenever d = 0
\* and otherwise the value r with r * d = c * t; (100, 50, 0.8) gives 1.6
\* and (100, 100, 0.8) gives 0.8.
C4_HealthFactorFormula ==
    HealthFactorDone =>
        /\ IsZero(calc.d) => calc.ret.ok /\ IsInf(calc.ret.val)
        /\ ~IsZero(calc.d) =>
               /\ calc.ret.ok /\ ~IsInf(calc.ret.val)
               /\ Eq(Mul(calc.ret.val, calc.d), Mul(calc.c, calc.t))
        /\ (calc.c = Num(100, 1) /\ calc.d = Num(50, 1) /\ calc.t = Num(8, 10))
               => calc.ret = Ret(Num(16, 10))
        /\ (calc.c = Num(100, 1) /\ calc.d = Num(100, 1) /\ calc.t = Num(8, 10))
               => calc.ret = Ret(Num(8, 10))

C4_Witness ==
    /\ HealthFactorDone
    /\ calc.c = Num(100, 1) /\ calc.d = Num(50, 1) /\ calc.t = Num(8, 10)
    /\ calc.ret = Ret(Num(16, 10))

\* the inputs the Risk Calculator must reject
InvalidHealthInputs ==
    \/ IsNeg(calc.c)
    \/ IsNeg(calc.d)
    \/ Lt(calc.t, Zero)
    \/ Gt(calc.t, One)

\* C5 as stated: calculate_health_factor rejects every input with negative
\* collateral, negative debt or a threshold outside [0,1], and it never
\* returns a negative health factor.
C5_RejectsInvalidInputs ==
    HealthFactorDone =>
        /\ InvalidHealthInputs => ~calc.ret.ok
        /\ calc.ret.ok => ~IsNeg(calc.ret.val)

----------------------------------------------------------------------------
(* Claims about the protocol adapters, checked under SpecAdapter *)

\* an Aave-family adapter whose read returned six values
AaveFetched ==
    pc = "fetched" /\ adapter.protocol \in AaveFamily /\ Len(raw) = 6

\* a Compound adapter whose three reads returned
CompoundFetched ==
    pc = "fetched" /\ adapter.protocol = "compound_v3" /\ Len(raw) = 3

\* 10^k as a number
E(k) == Norm(1, 1, k)

\* C2 as stated: when the chain returns the no-debt marker (uint256 max) as
\* the raw health factor, the Aave-family adapter's healthFactor is
\* +infinity, not a finite number and not a failure.
C2_NoDebtMarkerIsInfinity ==
    (AaveFetched /\ raw[6] = UINT256_MAX) =>
        /\ account_data # None
        /\ IsInf(account_data.health_factor)

\* C3 as stated: constructing an adapter for a chain its protocol has no
\* contract address on fails with the unsupported-configuration error
\* (ValueError), no network operation having been performed.
C3_UnsupportedFailsBeforeNetwork ==
    (pc # "construct" /\ adapter.chain_id \notin Registered(adapter.protocol)) =>
        /\ pc = "construct_failed"
        /\ adapter.err = "ValueError"
        /\ net = <<>>

\* C9: the Aave-family adapter returns collateral, debt and available
\* borrows divided by 1e8, threshold and ltv divided by 1e4, the health
\* factor divided by 1e18 and no sub-positions; the tuple (500000000000,
\* 250000000000, 0, 8250, 8000, 1650000000000000000) gives 5000, 2500,
\* 0.825, 0.8 and 1.65.
C9_AaveNormalization ==
    AaveFetched =>
        /\ account_data # None
        /\ Eq(Mul(account_data.total_collateral_usd, E(8)), raw[1])
        /\ Eq(Mul(account_data.total_debt_usd, E(8)), raw[2])
        /\ Eq(Mul(account_data.available_borrows_usd, E(8)), raw[3])
        /\ Eq(Mul(account_data.liquidation_threshold, E(4)), raw[4])
        /\ Eq(Mul(account_data.ltv, E(4)), raw[5])
        /\ Eq(Mul(account_data.health_factor, E(18)), raw[6])
        /\ account_data.positions = <<>>
        /\ raw = <<Raw(5, 11), Raw(25, 10), Zero, Raw(825, 1), Raw(8, 3), Raw(165, 16)>>
              => /\ account_data.total_collateral_usd = Num(5000, 1)
                 /\ account_data.total_debt_usd = Num(2500, 1)
                 /\ account_data.liquidation_threshold = Num(825, 1000)
                 /\ account_data.ltv = Num(8, 10)
                 /\ account_data.health_factor = Num(165, 100)

C9_Witness ==
    /\ AaveFetched
    /\ raw = <<Raw(5, 11), Raw(25, 10), Zero, Raw(825, 1), Raw(8, 3), Raw(165, 16)>>
    /\ account_data.total_collateral_usd = Num(5000, 1)
    /\ account_data.liquidation_threshold = Num(825, 1000)
    /\ account_data.health_factor = Num(165, 100)

\* C10: the Compound adapter returns debt = borrowBalance / 1e6, collateral
\* = (collateralBalance * price) / 1e14, threshold 0.80 and ltv 0.75, and a
\* health factor of (collateral * 0.80) / debt when the debt is non-zero and
\* +infinity when it is zero: the value calculate_health_factor gives for
\* (collateral, debt, 0.80).
C10_CompoundNormalization ==
    CompoundFetched =>
        /\ account_data # None
        /\ Eq(Mul(account_data.total_debt_usd, E(6)), raw[1])
        /\ Eq(Mul(account_data.total_collateral_usd, E(14)), Mul(raw[2], raw[3]))
        /\ account_data.liquidation_threshold = Num(80, 100)
        /\ account_data.ltv = Num(75, 100)
        /\ IsZero(raw[1]) => IsInf(account_data.health_factor)
        /\ ~IsZero(raw[1]) =>
              /\ ~IsInf(account_data.health_factor)
              /\ Eq(Mul(account_data.health_factor, account_data.total_debt_usd),
                    Mul(account_data.total_collateral_usd, Num(80, 100)))
        /\ Ret(account_data.health_factor) =
              calculate_health_factor(account_data.total_collateral_usd,
                                      account_data.total_debt_usd, Num(80, 100))

C10_Witness ==
    /\ CompoundFetched
    /\ raw = <<Raw(5, 7), Raw(1, 10), Raw(2, 6)>>
    /\ account_data.total_debt_usd = Num(50, 1)
    /\ account_data.total_collateral_usd = Num(200, 1)
    /\ account_data.health_factor = Num(32, 10)

----------------------------------------------------------------------------
(* Claims about the severity and the buffer *)

ShouldAlertDone == calc.fn = "should_alert" /\ calc.done

\* the endpoint answered with a MonitorResponse
Responded == pc = "done" /\ response.status = 200

\* C6: a health factor below 1.05 is (alert, critical); otherwise one below
\* the alert threshold a (1.2 by default) is (alert, warning); otherwise
\* (no alert, safe).  A value equal to a threshold is not below it, the alert
\* flag is set exactly when the severity is not safe, and the endpoint's
\* severity and alert flag are those of should_alert with the default
\* threshold.  Checked under SpecRisk.
C6_SeverityClassification ==
    /\ ShouldAlertDone =>
          LET a == IF calc.a = <<>> THEN Num(12, 10) ELSE calc.a[1]
          IN  /\ Lt(calc.hf, Num(105, 100)) => calc.ret = <<TRUE, "critical">>
              /\ (~Lt(calc.hf, Num(105, 100)) /\ Lt(calc.hf, a))
                    => calc.ret = <<TRUE, "warning">>
              /\ (~Lt(calc.hf, Num(105, 100)) /\ ~Lt(calc.hf, a))
                    => calc.ret = <<FALSE, "safe">>
              /\ calc.ret[1] <=> calc.ret[2] # "safe"
              /\ (calc.hf = Num(1049, 1000) /\ calc.a = <<>>)
                    => calc.ret = <<TRUE, "critical">>
              /\ (calc.hf = Num(105, 100) /\ calc.a = <<>>)
                    => calc.ret = <<TRUE, "warning">>
              /\ (calc.hf = Num(12, 10) /\ calc.a = <<>>)
                    => calc.ret = <<FALSE, "safe">>
    /\ Responded =>
          /\ <<response.alert_threshold_hit, response.severity>>
                = should_alert(position.health_factor, DefaultAlertThreshold)
          /\ response.alert_threshold_hit <=> response.severity # "safe"
          /\ position.health_factor = Num(105, 100) => response.severity = "warning"
          /\ position.health_factor = Num(12, 10) => response.severity = "safe"

C6_Witness ==
    /\ Responded
    /\ position.health_factor = Num(105, 100)
    /\ response.severity = "warning"
    /\ response.alert_threshold_hit

\* (hf - 1.0) * 100, the buffer of a health factor above 1
ExactBuffer(hf) == Mul(Sub(hf, One), Num(100, 1))

\* C7 as stated: the reported buffer is (hf - 1.0) * 100 when hf > 1.0 and
\* exactly 0.0 when hf <= 1.0; it is never negative.
C7_BufferIsExact ==
    Responded =>
        /\ Gt(position.health_factor, One)
              => Eq(response.buffer_percent, ExactBuffer(position.health_factor))
        /\ Le(position.health_factor, One) => response.buffer_percent = Zero
        /\ ~IsNeg(response.buffer_percent)

\* x is a whole number of hundredths (or infinite)
IsHundredths(x) == IsInf(x) \/ (x.d = 1 /\ x.e >= -2)

\* C7 amended: the reported buffer is (hf - 1.0) * 100 rounded to two
\* decimal places when hf > 1.0 and exactly 0.0 when hf <= 1.0; it is never
\* negative (1.0 and 0.5 give 0, 1.5 gives 50).
C7_BufferIsRounded ==
    Responded =>
        LET hf == position.health_factor
            b == response.buffer_percent
        IN  /\ (Gt(hf, One) /\ IsInf(hf)) => IsInf(b)
            /\ (Gt(hf, One) /\ ~IsInf(hf)) =>
                  /\ IsHundredths(b)
                  /\ Le(Sub(b, ExactBuffer(hf)), Num(5, 1000))
                  /\ Le(Sub(ExactBuffer(hf), b), Num(5, 1000))
            /\ Le(hf, One) => b = Zero
            /\ ~IsNeg(b)
            /\ hf = Num(15, 10) => b = Num(50, 1)

C7_Witness ==
    /\ Responded
    /\ position.health_factor = Num(100001, 100000)
    /\ response.buffer_percent = Zero

----------------------------------------------------------------------------
(* The empty position, the liquidation price's presence, and failures *)

\* C11: in a served request, for every protocol adapter, a wallet with zero
\* collateral and zero debt gets a result with no liquidation price, an
\* infinite health factor and severity safe with no alert.
C11_EmptyPositionIsInfiniteAndSafe ==
    (Responded /\ IsZero(position.total_collateral_usd)
               /\ IsZero(position.total_debt_usd)) =>
        /\ position.liq_price = None
        /\ response.liq_price = None
        /\ IsInf(position.health_factor)
        /\ IsInf(response.health_factor)
        /\ response.severity = "safe"
        /\ ~response.alert_threshold_hit

\* monitor_position has returned
Monitored == pc \in {"monitored", "done"}

\* C12: in every result monitor_position returns, the liquidation price is
\* present exactly when the debt and the collateral are both positive; when
\* either is zero a result is returned all the same and its field is None,
\* not a number.
C12_LiqPricePresence ==
    /\ (Monitored /\ position # None) =>
          ((position.liq_price # None)
              <=> (Gt(position.total_debt_usd, Zero)
                     /\ Gt(position.total_collateral_usd, Zero)))
    /\ (Monitored /\ account_data # None
          /\ (IsZero(account_data.total_debt_usd)
                \/ IsZero(account_data.total_collateral_usd))) =>
          /\ position # None
          /\ position.liq_price = None

C12_Witness ==
    /\ pc = "monitored"
    /\ position # None
    /\ Gt(position.total_debt_usd, Zero)
    /\ IsZero(position.total_collateral_usd)
    /\ position.liq_price = None

\* the values an adapter's fetch reads from the chain
ReadValues(protocol) == IF protocol \in AaveFamily THEN 6 ELSE 3

\* the fetch has run and a read of it failed, or the wallet was malformed
FetchFailed ==
    /\ pc \in {"fetched", "monitored", "done"}
    /\ adapter # None
    /\ adapter.err = ""
    /\ Len(raw) < ReadValues(adapter.protocol)

\* the fields of the normalized account data
AccountFields ==
    { "total_collateral_usd", "total_debt_usd", "available_borrows_usd",
      "liquidation_threshold", "ltv", "health_factor", "positions" }

\* C13: when any chain read of a fetch fails, or the wallet is malformed, the
\* adapter returns no account data, monitor_position returns no position and
\* the request is answered with a failure; account data and a result exist
\* only when every read returned, and then all fields are populated.
C13_FetchAllOrNothing ==
    /\ FetchFailed =>
          /\ account_data = None
          /\ Monitored => position = None
          /\ pc = "done" => response.status = 503
    /\ account_data # None =>
          /\ Len(raw) = ReadValues(adapter.protocol)
          /\ DOMAIN account_data = AccountFields
    /\ Responded => ~FetchFailed /\ account_data # None

C13_Witness ==
    /\ pc = "done"
    /\ FetchFailed
    /\ adapter.protocol = "compound_v3"
    /\ net = <<"is_connected", "borrowBalanceOf", "collateralBalanceOf", "getPrice">>
    /\ Len(raw) = 2
    /\ response.status = 503

\* the endpoint has called monitor_position
MonitorCalled ==
    /\ pc \notin {"endpoint", "monitor"}
    /\ req.protocol_ids # <<>>
    /\ req.protocol_ids[1] \in ProtocolTypes

\* the kind of the failure of a monitor_position call that returned None
FailureKind ==
    IF req.chain_id \notin rpc_urls THEN "UnsupportedChain"
    ELSE IF adapter.err = "ValueError" THEN "UnsupportedConfiguration"
    ELSE IF adapter.err = "ConnectionError" THEN "ConnectionFailure"
    ELSE IF account_data = None THEN "FetchFailure"
    ELSE "ZeroDivisionError"

\* C14: every failure reaches the caller as an outcome that identifies its
\* kind: the answer "Failed to fetch position data" is given to fetch failures
\* only, and a failure of the adapter's construction reaches the caller as
\* the exception the construction raised.
C14_FailuresAreTyped ==
    /\ (MonitorCalled /\ pc = "done"
          /\ response = HTTPException(503, "Failed to fetch position data")) =>
          FailureKind = "FetchFailure"
    /\ (MonitorCalled /\ Monitored /\ adapter # None /\ adapter.err # "") =>
          position = Raise(adapter.err)

\* C15: monitor_position with a chain id outside {1, 137, 42161, 10, 8453,
\* 43114, 56} fails, and no adapter is constructed, no provider connection is
\* made and no chain read is issued for it.
C15_UnsupportedChainFailsFirst ==
    (MonitorCalled /\ req.chain_id \notin {1, 137, 42161, 10, 8453, 43114, 56}) =>
        /\ Monitored
        /\ position = None
        /\ adapter = None
        /\ net = <<>> /\ raw = <<>>
        /\ pc = "done" => response.status = 503

C15_Witness ==
    /\ pc = "done"
    /\ MonitorCalled
    /\ req.chain_id = 999
    /\ position = None /\ adapter = None /\ net = <<>>
    /\ response.status = 503

----------------------------------------------------------------------------
(* Claims about retries and the price feed *)

\* no element of the sequence occurs twice
NoRepeat(seq) == \A i, j \in DOMAIN seq : i < j => seq[i] # seq[j]

\* a failure has happened in the request: of the construction or of the fetch
RequestFailed == (adapter # None /\ adapter.err # "") \/ FetchFailed

\* a price feed call is under way or over
PriceCalled == feed.fn # "none"

\* C16: no automatic retry.  Within one monitoring request no external
\* operation (the provider's connection check at the adapter's construction,
\* each chain read) is issued twice; a failed fetch stops at the read that
\* failed; after a failure no external operation is issued any more and the
\* failure's answer, once given, stays; a price feed call enters
\* get_token_prices once and issues at most one aggregator query.  Checked
\* under SpecService.
C16_NoRetry ==
    /\ [](/\ NoRepeat(net)
          /\ (FetchFailed /\ IsAddress(req.wallet)) => Len(net) = Len(raw) + 2
          /\ (FetchFailed /\ ~IsAddress(req.wallet)) => net = <<"is_connected">>
          /\ PriceCalled => /\ Len(feed.queries) <= 1
                            /\ NoRepeat(feed.calls))
    /\ [][/\ RequestFailed => net' = net
          /\ response # None => response' = response
          /\ (PriceCalled /\ feed.reply # None) => feed'.queries = feed.queries]_vars

C16_Witness ==
    /\ pc = "done"
    /\ adapter # None
    /\ adapter.protocol = "aave_v3"
    /\ FetchFailed
    /\ net = <<"is_connected", "getUserAccountData">>
    /\ response.status = 503

\* get_token_prices has returned
PricesDone == PriceCalled /\ feed.pc \in {"prices_done", "returned"}

\* the positions of the requested symbols that the symbol table holds
Mapped == { i \in DOMAIN feed.symbols : Upper(feed.symbols[i]) \in DOMAIN COINGECKO_IDS }

\* the requested symbols that the symbol table holds, in the table's case
MappedSymbols == { Upper(feed.symbols[i]) : i \in Mapped }

\* the request without its unmapped symbols
MappedOnly == SelectSeq(feed.symbols, LAMBDA s : Upper(s) \in DOMAIN COINGECKO_IDS)

\* C17: get_token_prices returns a mapping for every list of symbols and
\* every answer of the aggregator, an error included (then the empty one);
\* its keys are requested symbols that the symbol table holds, in the table's
\* upper case; the unmapped symbols of a request change nothing else: the
\* result is that of the request without them; ["ETH", "UNKNOWNXYZ"] answered
\* with ethereum's usd price gives the mapping with the one key "ETH".
C17_BatchNeverFails ==
    PricesDone =>
        /\ DOMAIN feed.prices \subseteq MappedSymbols
        /\ (feed.reply # None /\ feed.reply.error # "") => feed.prices = EmptyDict
        /\ (feed.reply # None /\ feed.reply.error = "") =>
              feed.prices = ParseReply(feed.reply.data, 1,
                                MapSymbols(MappedOnly, 1, <<>>, EmptyDict).symbol_to_id,
                                EmptyDict)
        /\ (feed.symbols = <<"ETH", "UNKNOWNXYZ">> /\ feed.reply # None
              /\ feed.reply.error = ""
              /\ Len(feed.reply.data) = 1
              /\ feed.reply.data[1].id = "ethereum"
              /\ "usd" \in DOMAIN feed.reply.data[1].price_data) =>
              /\ DOMAIN feed.prices = {"ETH"}
              /\ feed.prices["ETH"] = feed.reply.data[1].price_data.usd

C17_Witness ==
    /\ feed.fn = "get_token_prices"
    /\ feed.pc = "prices_done"
    /\ feed.symbols = <<"ETH", "UNKNOWNXYZ">>
    /\ feed.reply = [error |-> "", data |-> <<[id |-> "ethereum", price_data |-> [usd |-> 2000]]>>]
    /\ DOMAIN feed.prices = {"ETH"}
    /\ feed.prices["ETH"] = 2000

\* the response's usd value for an identifier, as a set: empty when the
\* response lacks the identifier or its usd field
UsdOf(data, cg_id) ==
    { data[i].price_data.usd :
        i \in { k \in DOMAIN data : data[k].id = cg_id /\ "usd" \in DOMAIN data[k].price_data } }

\* C18: for every batch and every response of the aggregator that holds
\* queried identifiers only, the returned mapping has exactly the requested
\* mapped symbols whose identifier the response holds with a usd field, each
\* with that usd value, also when two requested symbols share an identifier.
C18_ExactlyTheResolved ==
    (PricesDone /\ feed.reply # None /\ feed.reply.error = ""
       /\ \A i \in DOMAIN feed.reply.data :
             feed.reply.data[i].id \in DOMAIN feed.symbol_to_id) =>
        /\ DOMAIN feed.prices
             = { s \in MappedSymbols : UsdOf(feed.reply.data, COINGECKO_IDS[s]) # {} }
        /\ \A s \in DOMAIN feed.prices :
              UsdOf(feed.reply.data, COINGECKO_IDS[s]) = {feed.prices[s]}

\* get_token_prices has gone through its loop over the symbols
SymbolsMapped == PriceCalled /\ feed.pc \in {"awaiting", "prices_done", "returned"}

\* C19: the symbols are looked up whatever their case, and the one aggregator
\* query holds the identifiers of the requested symbols that the table holds
\* and nothing else; when the table holds none of them no query is issued and
\* the result is empty.
C19_OnlyMappedReachTheNetwork ==
    SymbolsMapped =>
        /\ Mapped = {} =>
              /\ feed.queries = <<>>
              /\ feed.pc # "awaiting"
              /\ feed.prices = EmptyDict
        /\ Mapped # {} =>
              /\ Len(feed.queries) = 1
              /\ { feed.queries[1][k] : k \in DOMAIN feed.queries[1] }
                   = { COINGECKO_IDS[Upper(feed.symbols[i])] : i \in Mapped }
        /\ (\E i \in DOMAIN feed.symbols : feed.symbols[i] = "eth") =>
              \E k \in DOMAIN feed.queries[1] : feed.queries[1][k] = "ethereum"

C19_Witness ==
    /\ feed.fn = "get_token_prices"
    /\ feed.pc = "awaiting"
    /\ feed.symbols = <<"eth", "UNKNOWNXYZ">>
    /\ feed.queries = << <<"ethereum">> >>

\* the price tiers in their order: the functions that consult them
Tiers == <<"get_price_from_chainlink", "get_price_from_protocol", "get_token_prices">>

\* C20: get_token_price_with_fallback consults the tiers strictly in the
\* order on-chain oracle, protocol oracle, aggregator: the k-th consultation
\* of a call is of the k-th tier, so a tier is consulted only after every
\* earlier one, and a call that returned a price consulted no tier after the
\* one that gave it.
C20_TiersInOrder ==
    (PriceCalled /\ feed.fn = "get_token_price_with_fallback") =>
        /\ Len(feed.calls) <= Len(Tiers)
        /\ \A k \in DOMAIN feed.calls : feed.calls[k] = Tiers[k]
        /\ (feed.pc = "returned" /\ feed.ret # Absent) =>
              feed.calls[Len(feed.calls)] = "get_token_prices"

\* get_token_price_with_fallback has returned
FallbackReturned == feed.fn = "get_token_price_with_fallback" /\ feed.pc = "returned"

\* the aggregator's usd values for the symbol of a fallback call, as a set:
\* empty when the symbol is unmapped, no query was answered, or the answer
\* lacks the symbol's identifier or its usd field
AggregatorUsd ==
    LET symbol == Upper(feed.symbols[1])
    IN  IF symbol \notin DOMAIN COINGECKO_IDS \/ feed.reply = None THEN {}
        ELSE IF feed.reply.error # "" THEN {}
        ELSE UsdOf(feed.reply.data, COINGECKO_IDS[symbol])

\* C21: for every symbol, with the token address, chain and endpoint given or
\* not, get_token_price_with_fallback returns the usd price the aggregator
\* answered for the symbol's identifier when it answered one (its answer
\* holding queried identifiers only), and None when the symbol is unmapped,
\* the query failed or the answer lacks the price; a returned price is always
\* the aggregator's.
C21_FallbackIsTheAggregator ==
    FallbackReturned =>
        /\ feed.ret # Absent => AggregatorUsd = {feed.ret[1]}
        /\ AggregatorUsd = {} => feed.ret = Absent
        /\ (AggregatorUsd # {}
              /\ \A i \in DOMAIN feed.reply.data :
                    feed.reply.data[i].id \in DOMAIN feed.symbol_to_id) =>
              feed.ret # Absent

C21_Witness ==
    /\ FallbackReturned
    /\ feed.symbols = <<"eth">>
    /\ feed.token_address # Absent /\ feed.chain_id # Absent /\ feed.rpc_url # Absent
    /\ feed.calls = <<"get_price_from_chainlink", "get_token_prices">>
    /\ feed.ret = <<2000>>

----------------------------------------------------------------------------
(* Claims about the result record of monitor_position *)

\* C24: a liquidation price present in a monitoring result is the value of
\* calculate_liquidation_price for the position's total debt (at price 1) and
\* total collateral with its liquidation threshold and the default bonus
\* 1.05: totalDebtUsd / (totalCollateralUsd * (liquidationThreshold / 1.05)).
C24_LiqPriceIsTheCalculators ==
    (Monitored /\ position # None /\ position.liq_price # None) =>
        Ret(position.liq_price)
          = calculate_liquidation_price(position.total_collateral_usd,
                                        position.total_debt_usd, One,
                                        position.liquidation_threshold,
                                        DefaultLiquidationBonus)

\* C25: whenever the adapter returned a normalized position, whatever its
\* field values (a zero liquidation threshold with positive debt and
\* collateral included), monitor_position returns a result record, whose
\* health_factor, total_collateral_usd, total_debt_usd,
\* liquidation_threshold, ltv and positions are the adapter's.
C25_ResultForEveryPosition ==
    (Monitored /\ account_data # None) =>
        /\ position # None
        /\ position.health_factor = account_data.health_factor
        /\ position.total_collateral_usd = account_data.total_collateral_usd
        /\ position.total_debt_usd = account_data.total_debt_usd
        /\ position.liquidation_threshold = account_data.liquidation_threshold
        /\ position.ltv = account_data.ltv
        /\ position.positions = account_data.positions

----------------------------------------------------------------------------
(* Termination, checked under SpecService *)

\* the position of a step in the pipeline of a monitoring request
PipelineRank(at) ==
    CASE at = "endpoint" -> 1
      [] at = "monitor" -> 2
      [] at = "construct" -> 3
      [] at \in {"constructed", "construct_failed"} -> 4
      [] at = "fetched" -> 5
      [] at = "monitored" -> 6
      [] at = "done" -> 7
      [] OTHER -> 0

\* the position of a step in a price feed call
FeedRank(at) ==
    CASE at = "start" -> 1
      [] at = "prices" -> 2
      [] at = "awaiting" -> 3
      [] at = "prices_done" -> 4
      [] at = "returned" -> 5
      [] OTHER -> 0

\* the price feed call has returned to its caller
PriceEnded ==
    \/ feed.fn = "get_token_prices" /\ feed.pc = "prices_done"
    \/ feed.fn = "get_token_price_with_fallback" /\ feed.pc = "returned"

\* the step the request waits for can be taken.  For the steps that call
\* out (the construction's connection check, the fetch's chain reads) and for
\* the checks before them this is the step's enabledness; the two steps that
\* only compute, from the fetch's return to the answer, are guarded by the
\* position alone, and what they assign has a value.
NothingPending ==
    /\ pc = "endpoint" => ENABLED EndpointValidate
    /\ pc = "monitor" => ENABLED MonitorStart
    /\ pc = "construct" => ENABLED Construct
    /\ pc = "construct_failed" => ENABLED MonitorExcept
    /\ pc = "constructed" => ENABLED (FetchAave \/ FetchCompound)
    /\ pc = "fetched" =>
          LET result == MonitorResult(account_data, req.chain_id)
          IN  result = None \/ result.chain_name = CHAIN_NAMES[req.chain_id]
    /\ pc = "monitored" =>
          (position = None \/ MonitorResponse(req, position).status = 200)
    /\ (PriceCalled /\ ~PriceEnded) => ENABLED NextPrice

----------------------------------------------------------------------------
(* Isolation of concurrent calls, checked under SpecConcurrent *)

\* monitor_position run alone on a fresh LendingMonitor with the inputs and
\* the chain answers of a call: what it returns and the external operations
\* it issues
Alone(r) ==
    LET construction == get_protocol_interface(r.req.protocol, r.req.chain_id,
                                               r.chain.connected, <<>>)
        fetch == FetchOutcome(r.req.protocol, r.req.wallet, r.chain.fetch)
    IN  IF r.req.chain_id \notin DOMAIN DEFAULT_RPC_URLS
        THEN [position |-> None, net |-> <<>>]
        ELSE IF construction.err # ""
        THEN [position |-> None, net |-> construction.net]
        ELSE [position |-> MonitorResult(fetch.account_data, r.req.chain_id),
              net |-> construction.net \o fetch.net]

\* call i can take its next step.  For the steps up to the construction this
\* is the step's enabledness; the fetch and the assembling of the result are
\* guarded by the call's own position alone, and what they assign has a value.
CanStep(i) ==
    LET r == requests[i]
    IN  /\ r.pc = "monitor" => ENABLED ConcMonitorStart(i)
        /\ r.pc = "construct" => ENABLED ConcConstruct(i)
        /\ r.pc = "construct_failed" => ENABLED ConcMonitorExcept(i)
        /\ r.pc = "constructed" =>
              LET out == FetchOutcome(r.adapter.protocol, r.req.wallet, r.chain.fetch)
              IN  out.account_data = None \/ DOMAIN out.account_data = AccountFields
        /\ r.pc = "fetched" =>
              LET result == MonitorResult(r.account_data, r.req.chain_id)
              IN  result = None \/ result.chain_name = CHAIN_NAMES[r.req.chain_id]
        /\ r.pc \in {"monitor", "construct", "construct_failed", "constructed",
                     "fetched", "monitored"}

=============================================================================
